---- MODULE Spec2Model ----
(***************************************************************************)
(* A model of et_stopwatch.py: the Statistics accumulator and the          *)
(* Stopwatch class (start/stop, the `time` property, __repr__, the context *)
(* manager protocol and the decorator wrapper), driven by a caller that    *)
(* may invoke the public operations in any order while the monotonic       *)
(* timer advances.                                                         *)
(*                                                                         *)
(* Time is counted in integer ticks of the timer.  Rationals (the mean,    *)
(* the radicand of the standard deviation) are kept as num/den pairs, so   *)
(* all arithmetic is exact.                                                *)
(***************************************************************************)
EXTENDS Integers, Sequences, FiniteSets

\* ---------------------------------------------------------------- bounds
\* Largest reading of the timer that the model explores.
MaxClock == 2
\* Largest number of stop() calls (explicit or made by __exit__).
MaxStops == 2
\* Largest number of scope entries (with-blocks and decorated calls).
MaxScopes == 2
\* Largest advance of the timer between the two readings inside one stop().
MaxGap == 1

\* ------------------------------------------------------ program constants
\* float_info.max: the initial value of Statistics.min, larger than any
\* duration the timer can produce.
FloatMax == 1000
\* Timer ticks per unit of the last retained digit (10^-ndigits seconds):
\* round(x, ndigits) rounds to a multiple of Quantum ticks.
Quantum == 2

VARIABLES
    clock,      \* the current reading of timer()
    sw,         \* the Stopwatch object: started, stopped, stats, message,
                \* file, filename, _time
    sidecar,    \* the pickled Statistics in '<filename>.stats', if any
    printed,    \* what the most recent __exit__ printed to self.file
    pc,         \* "idle" (outside any scope) or "body" (inside a with-block)
    scope,      \* the current/most recent scope: how it was entered, count
                \* at entry, stop() calls made by its body, count at exit
    ret,        \* the `stats` argument of the most recent stop() call
    result,     \* what the caller of the most recent scope observed
    samples,    \* history: the raw interval measured by every stop()
    chain,      \* history: the [from, to] timer readings of the stop()
                \* calls made since the last start()
    hist,       \* history: scopes entered, stop() calls made by __exit__
    call        \* the call made by the latest step, when it was start(),
                \* a read of `time` or lap(): its argument and what it
                \* returned

vars == <<clock, sw, sidecar, printed, pc, scope, ret, result, samples,
          chain, hist, call>>

\* ---------------------------------------------------------------- values
\* Python's None, as an argument or attribute value.
None == "None"
\* Python truthiness of a str-or-None value.
Truthy(x) == x # None /\ x # ""

\* An attribute that has not been assigned yet (reading it raises
\* AttributeError).  Rational attributes are num/den pairs.
Unset == [set |-> FALSE, num |-> 0, den |-> 1]
Rat(n, d) == [set |-> TRUE, num |-> n, den |-> d]

\* round(t, ndigits) of a value of num/den ticks: the nearest multiple of
\* Quantum, ties going to the even multiple (Python 3 round()).
roundRat(num, den) ==
    LET q == Quantum * den
        k == num \div q
        r == num % q
    IN  IF 2 * r < q THEN k * Quantum
        ELSE IF 2 * r > q THEN (k + 1) * Quantum
        ELSE IF k % 2 = 0 THEN k * Quantum ELSE (k + 1) * Quantum

round(t) == roundRat(t, 1)

\* round(sqrt(num/den), ndigits): the multiple k*Quantum nearest to the
\* square root, found by comparing squares (0 <= num, 0 < den).
roundSqrt(num, den) ==
    LET Above(k) == 4 * num < (2 * k * Quantum + Quantum) * (2 * k * Quantum + Quantum) * den
        k == CHOOSE i \in 0..(num + 1) : Above(i) /\ \A j \in 0..(i - 1) : ~Above(j)
    IN  k * Quantum

\* ------------------------------------------------------------ Statistics
\* Mutant of Statistics: __init__ presets mean and stddev to 0.
StatisticsSentinel ==
    [max |-> 0, min |-> FloatMax, count |-> 0, sum |-> 0, ssq |-> 0,
     mean |-> Rat(0, 1), stddev |-> Rat(0, 1)]

\* Statistics.__init__: the accumulator before any sample.  The attributes
\* mean and stddev do not exist yet.
Statistics ==
    [max |-> 0, min |-> FloatMax, count |-> 0, sum |-> 0, ssq |-> 0,
     mean |-> Unset, stddev |-> Unset]

\* Mutant of StatisticsCall: the maximum is tested with `elif`, so a sample
\* that lowers the minimum never raises the maximum.
StatisticsCallElif(s, t) ==
    [s EXCEPT !.count = @ + 1,
              !.min = IF t < @ THEN t ELSE @,
              !.max = IF ~(t < s.min) /\ t > @ THEN t ELSE @,
              !.sum = @ + t,
              !.ssq = @ + t * t]

\* Statistics.__call__(t): record one sample.
StatisticsCall(s, t) ==
    [s EXCEPT !.count = @ + 1,
              !.min = IF t < @ THEN t ELSE @,
              !.max = IF t > @ THEN t ELSE @,
              !.sum = @ + t,
              !.ssq = @ + t * t]

\* The value self.sum / self.count, as a rational.
meanOf(s) == Rat(s.sum, s.count)

\* Mutant of radicand: the factor 2 of `2. * self.sum` is lost.
radicandNoTwo(s, m) ==
    Rat(s.ssq * m.den * m.den + m.num * (s.count * m.num - s.sum * m.den),
        m.den * m.den * s.count)

\* The radicand of the standard deviation as __repr__ computes it,
\*   (ssq + mean * (count * mean - 2 * sum)) / count,
\* for mean = m.num / m.den, as a rational over the denominator
\* m.den^2 * count.
radicand(s, m) ==
    Rat(s.ssq * m.den * m.den + m.num * (s.count * m.num - 2 * s.sum * m.den),
        m.den * m.den * s.count)

\* Statistics.__repr__, its effect on the object: with more than one sample
\* it assigns self.mean and self.stddev (stddev is kept as its square, the
\* radicand); otherwise it assigns nothing.
reprAssign(s) ==
    IF s.count > 1
    THEN [s EXCEPT !.mean = meanOf(s), !.stddev = radicand(s, meanOf(s))]
    ELSE s

\* Mutant of reprText: the test is `self.count > 0`.
reprTextFromOne(s) ==
    IF s.count > 0
    THEN LET m == meanOf(s)
             v == radicand(s, m)
         IN  [form |-> "multi",
              total |-> round(s.sum), minimum |-> round(s.min),
              maximum |-> round(s.max), mean |-> roundRat(m.num, m.den),
              stddev |-> roundSqrt(v.num, v.den), count |-> s.count]
    ELSE [form |-> "single", total |-> round(s.sum)]

\* Statistics.__repr__, the text it returns: the six-line block with more
\* than one sample, the single rounded total otherwise.
reprText(s) ==
    IF s.count > 1
    THEN LET m == meanOf(s)
             v == radicand(s, m)
         IN  [form |-> "multi",
              total |-> round(s.sum), minimum |-> round(s.min),
              maximum |-> round(s.max), mean |-> roundRat(m.num, m.den),
              stddev |-> roundSqrt(v.num, v.den), count |-> s.count]
    ELSE [form |-> "single", total |-> round(s.sum)]

\* ------------------------------------------------------------- Stopwatch
\* Mutant of start: start() also replaces the statistics by fresh ones.
startResets(w, now, message) ==
    [w EXCEPT !.started = now,
              !.stopped = now,
              !.stats = Statistics,
              !.message = IF Truthy(message) THEN message ELSE @]

\* Stopwatch.start(message): both timestamps take the timer reading `now`;
\* the message is replaced when the argument is truthy.
start(w, now, message) ==
    [w EXCEPT !.started = now,
              !.stopped = now,
              !.message = IF Truthy(message) THEN message ELSE @]

\* Mutant of StopwatchInit: the closing self.start() is missing.
StopwatchInitNoStart(message, file, isPath, now) ==
    [started |-> -1, stopped |-> -1, stats |-> Statistics,
     message |-> message,
     filename |-> IF isPath THEN file ELSE None,
     file |-> IF isPath THEN None ELSE file,
     time |-> Unset]

\* Stopwatch.__init__(message, ndigits, file) followed by the start() it
\* ends with, the timer reading `now`.  A str `file` is a file name.
StopwatchInit(message, file, isPath, now) ==
    start([started |-> -1, stopped |-> -1, stats |-> Statistics,
           message |-> message,
           filename |-> IF isPath THEN file ELSE None,
           file |-> IF isPath THEN None ELSE file,
           time |-> Unset],
          now, None)

\* Mutant of stop: the closing self.start() is missing.
stopNoRestart(w, now1, now2, stats) ==
    LET t == now1 - w.started
    IN  [w EXCEPT !.stopped = now1,
                  !.stats = StatisticsCall(@, t),
                  !.time = Rat(round(t), 1)]

\* Mutant of stop: the interval is measured from `stopped`, not `started`.
stopFromStopped(w, now1, now2, stats) ==
    LET t == now1 - w.stopped
        w1 == [w EXCEPT !.stopped = now1,
                        !.stats = StatisticsCall(@, t),
                        !.time = Rat(round(t), 1)]
    IN  start(w1, now2, None)

\* Stopwatch.stop(stats): the timer is read (now1), the interval since
\* `started` is recorded and rounded into _time, and start() reads the
\* timer again (now2 >= now1).  The parameter `stats` is not consulted.
stop(w, now1, now2, stats) ==
    LET t == now1 - w.started
        w1 == [w EXCEPT !.stopped = now1,
                        !.stats = StatisticsCall(@, t),
                        !.time = Rat(round(t), 1)]
    IN  start(w1, now2, None)

\* Stopwatch.__repr__, the text: the message, " : " and str(self.stats).
StopwatchRepr(w) == [message |-> w.message, stats |-> reprText(w.stats)]

\* Mutant of exitStop: __exit__ stops unconditionally.
exitStopAlways(w, exception_type, now1, now2) == stop(w, now1, now2, TRUE)

\* Mutant of exitStop: __exit__ stops only when the body did not raise.
exitStopUnlessRaised(w, exception_type, now1, now2) ==
    IF w.stats.count = 0 /\ exception_type = None
    THEN stop(w, now1, now2, TRUE) ELSE w

\* Stopwatch.__exit__, first statement: stop() when no sample was recorded.
\* The exception arguments are not consulted.
exitStop(w, exception_type, now1, now2) ==
    IF w.stats.count = 0 THEN stop(w, now1, now2, TRUE) ELSE w

\* Mutant of exitOpen: a failure to open the file is caught and ignored.
exitOpenQuiet(w, openOk) ==
    IF w.file # None THEN [w |-> w, exc |-> None]
    ELSE IF w.filename = None \/ ~openOk THEN [w |-> w, exc |-> None]
    ELSE [w |-> [w EXCEPT !.file = "handle"], exc |-> None]

\* Stopwatch.__exit__, second statement: a watch without a file object opens
\* its file name in append mode and keeps the handle.  open(None) raises
\* TypeError; opening a path may fail with OSError (openOk = FALSE).
exitOpen(w, openOk) ==
    IF w.file # None THEN [w |-> w, exc |-> None]
    ELSE IF w.filename = None THEN [w |-> w, exc |-> "TypeError"]
    ELSE IF ~openOk THEN [w |-> w, exc |-> "OSError"]
    ELSE [w |-> [w EXCEPT !.file = "handle"], exc |-> None]

\* Stopwatch.__exit__, the rest: with a file name, the Statistics pickled in
\* '<filename>.stats' (a fresh one when the file is absent) records
\* self.stats.sum and is written back; an overview is printed to self.file
\* when it holds more than one sample.  Nothing else is printed.
exitSidecar(w, sc) ==
    IF Truthy(w.filename)
    THEN LET loaded == IF sc.exists THEN sc.stats ELSE Statistics
             stats == StatisticsCall(loaded, w.stats.sum)
         IN  [sidecar |-> [exists |-> TRUE, stats |-> stats],
              printed |-> IF stats.count > 1
                          THEN <<[sink |-> w.file, head |-> "Overview:",
                                  body |-> reprText(stats)]>>
                          ELSE <<>>]
    ELSE [sidecar |-> sc, printed |-> <<>>]

\* What the caller of `with self: return func(...)` observes: __exit__
\* returns None, so an exception of the body propagates; an exception raised
\* by __exit__ itself replaces it (keeping it as context); otherwise the
\* value returned by the body is returned.
wrapper_stopwatch(outcome, exitExc) ==
    IF exitExc # None
    THEN [kind |-> "raise", value |-> exitExc,
          context |-> IF outcome.kind = "raise" THEN outcome.value ELSE None]
    ELSE IF outcome.kind = "raise"
    THEN [kind |-> "raise", value |-> outcome.value, context |-> None]
    ELSE [kind |-> "value", value |-> outcome.value, context |-> None]

\* Mutant of time: the property recomputes stopped - started.
timeRecomputed(w) ==
    [kind |-> "value", val |-> round(w.stopped - w.started)]

\* The `time` property: self._time, or AttributeError before any stop().
time(w) ==
    IF w.time.set THEN [kind |-> "value", val |-> w.time.num]
    ELSE [kind |-> "raise", val |-> 0]

\* Reading the attribute `mean` of a Statistics: its value as num/den, or
\* AttributeError while __repr__ has not assigned it.
mean(s) ==
    IF s.mean.set THEN [kind |-> "value", num |-> s.mean.num, den |-> s.mean.den]
    ELSE [kind |-> "raise", num |-> 0, den |-> 1]

\* Reading the attribute `stddev` of a Statistics (as its square).
stddev(s) ==
    IF s.stddev.set THEN [kind |-> "value", num |-> s.stddev.num, den |-> s.stddev.den]
    ELSE [kind |-> "raise", num |-> 0, den |-> 1]

\* ------------------------------------------------------------ the caller
\* Arguments a caller passes to start(message).
MessageArgs == {None, "", "lap"}
\* The `file` argument of the constructor: the default stdout, a file name,
\* or None.
SinkConfigs ==
    {[file |-> "stdout", isPath |-> FALSE],
     [file |-> "test.txt", isPath |-> TRUE],
     [file |-> None, isPath |-> FALSE]}
\* How the body of a scope ends: the decorated function (or the block under
\* `with`) returns its value or raises.
Outcomes ==
    {[kind |-> "raise", value |-> "BodyError"],
     [kind |-> "return", value |-> "v"]}

NoScope ==
    [outcome |-> None, entryCount |-> 0, bodyStops |-> 0, exitCount |-> 0]
NoCall == [op |-> None, arg |-> None, kind |-> None, val |-> 0]
NoResult == [kind |-> None, value |-> None, context |-> None]

Init ==
    /\ clock = 0
    /\ \E cfg \in SinkConfigs :
         sw = StopwatchInit("Stopwatch", cfg.file, cfg.isPath, 0)
    /\ sidecar = [exists |-> FALSE, stats |-> Statistics]
    /\ printed = <<>>
    /\ pc = "idle"
    /\ scope = NoScope
    /\ ret = None
    /\ result = NoResult
    /\ samples = <<>>
    /\ chain = <<>>
    /\ hist = [scopes |-> 0, exitStops |-> 0]
    /\ call = NoCall

\* The timer advances.
Tick ==
    /\ clock < MaxClock
    /\ clock' = clock + 1
    /\ call' = NoCall
    /\ UNCHANGED <<sw, sidecar, printed, pc, scope, ret, result, samples,
                   chain, hist>>

\* stopwatch.start(message)
Start ==
    \E m \in MessageArgs :
       /\ sw' = start(sw, clock, m)
       /\ chain' = <<>>
       /\ call' = [op |-> "start", arg |-> m, kind |-> "value", val |-> 0]
       /\ UNCHANGED <<clock, sidecar, printed, pc, scope, ret, result,
                      samples, hist>>

\* stopwatch.stop(stats); the timer may advance by g between the reading in
\* stop() and the reading in the start() it calls.
Stop ==
    \E stats \in BOOLEAN, g \in 0..MaxGap :
       /\ Len(samples) < MaxStops
       /\ clock + g <= MaxClock
       /\ sw' = stop(sw, clock, clock + g, stats)
       /\ clock' = clock + g
       /\ samples' = Append(samples, clock - sw.started)
       /\ chain' = Append(chain, [from |-> sw.started, to |-> clock])
       /\ ret' = IF stats THEN "True" ELSE "False"
       /\ scope' = IF pc = "body" THEN [scope EXCEPT !.bodyStops = @ + 1] ELSE scope
       /\ call' = NoCall
       /\ UNCHANGED <<sidecar, printed, pc, result, hist>>

\* repr(stopwatch) / print(stopwatch) by the caller: the text is
\* StopwatchRepr(sw); producing it assigns stats.mean and stats.stddev.
Repr ==
    /\ sw' = [sw EXCEPT !.stats = reprAssign(@)]
    /\ call' = NoCall
    /\ UNCHANGED <<clock, sidecar, printed, pc, scope, ret, result,
                   samples, chain, hist>>

\* Scope entry: a call of the decorated function, whose wrapper runs
\* `with self: return func(...)` (or a `with stopwatch:` block written out by
\* the caller); __enter__ calls start().
Enter ==
    /\ pc = "idle"
    /\ hist.scopes < MaxScopes
    /\ sw' = start(sw, clock, None)
    /\ pc' = "body"
    /\ scope' = [outcome |-> None, entryCount |-> sw.stats.count,
                 bodyStops |-> 0, exitCount |-> 0]
    /\ chain' = <<>>
    /\ result' = NoResult
    /\ hist' = [hist EXCEPT !.scopes = @ + 1]
    /\ call' = NoCall
    /\ UNCHANGED <<clock, sidecar, printed, ret, samples>>

\* Scope exit: the body ended with `outcome` and __exit__ runs.
Exit ==
    \E outcome \in Outcomes, g \in 0..MaxGap, openOk \in BOOLEAN :
       LET exception_type == IF outcome.kind = "raise" THEN outcome.value ELSE None
           w1 == exitStop(sw, exception_type, clock, clock + g)
           stopped == w1.stats.count # sw.stats.count
           o == exitOpen(w1, openOk)
           sc == exitSidecar(o.w, sidecar)
       IN  /\ pc = "body"
           /\ clock + g <= MaxClock
           /\ stopped => Len(samples) < MaxStops
           /\ sw' = o.w
           /\ clock' = IF stopped THEN clock + g ELSE clock
           /\ samples' = IF stopped THEN Append(samples, clock - sw.started)
                         ELSE samples
           /\ chain' = IF stopped
                       THEN Append(chain, [from |-> sw.started, to |-> clock])
                       ELSE chain
           /\ hist' = IF stopped THEN [hist EXCEPT !.exitStops = @ + 1] ELSE hist
           /\ sidecar' = IF o.exc = None THEN sc.sidecar ELSE sidecar
           /\ printed' = IF o.exc = None THEN sc.printed ELSE <<>>
           /\ result' = wrapper_stopwatch(outcome, o.exc)
           /\ scope' = [scope EXCEPT !.outcome = outcome.kind,
                                     !.exitCount = o.w.stats.count]
           /\ ret' = IF stopped THEN "True" ELSE ret
           /\ call' = NoCall
           /\ pc' = "idle"

\* A read of the property stopwatch.time.
ReadTime ==
    /\ call' = [op |-> "time", arg |-> None, kind |-> time(sw).kind,
                val |-> time(sw).val]
    /\ UNCHANGED <<clock, sw, sidecar, printed, pc, scope, ret, result,
                   samples, chain, hist>>

Next ==
    \/ Tick
    \/ Start
    \/ Stop
    \/ Repr
    \/ Enter
    \/ Exit

Spec == Init /\ [][Next]_vars

\* A watch constructed with the default `file` (stdout).
InitDefault == Init /\ sw.file = "stdout"

\* The caller of a default watch, who also reads the property `time`.
NextRead == Next \/ ReadTime
SpecRead == InitDefault /\ [][NextRead]_vars

\* lap() (also named timelapse) is not part of et_stopwatch.py; it is taken
\* from the specification: the time since the previous lap() or start(),
\* measured from `stopped`, which advances to the reading `now`; `started`
\* and the statistics are left alone.
lap(w, now) == [w |-> [w EXCEPT !.stopped = now], ret |-> now - w.stopped]

\* stopwatch.lap()
Lap ==
    /\ sw' = lap(sw, clock).w
    /\ call' = [op |-> "lap", arg |-> None, kind |-> "value",
                val |-> lap(sw, clock).ret]
    /\ UNCHANGED <<clock, sidecar, printed, pc, scope, ret, result, samples,
                   chain, hist>>

\* The caller of a default watch, who also calls lap().
NextLap == Next \/ Lap
SpecLap == InitDefault /\ [][NextLap]_vars

\* =============================================================== claims
SeqSum(seq) ==
    LET F[i \in 0..Len(seq)] == IF i = 0 THEN 0 ELSE F[i - 1] + seq[i]
    IN  F[Len(seq)]
SeqSet(seq) == {seq[i] : i \in 1..Len(seq)}
MinOf(S) == CHOOSE x \in S : \A y \in S : x <= y
MaxOf(S) == CHOOSE x \in S : \A y \in S : x >= y
\* The intervals measured by the stop() calls since the last start().
ChainDurations == [i \in 1..Len(chain) |-> chain[i].to - chain[i].from]
\* A scope has been entered and left, and none is open.
Exited == pc = "idle" /\ scope.outcome # None
\* The most recent __exit__ raised (its file could not be opened).
ExitRaised == result.value \in {"TypeError", "OSError"}

\* C1: after N >= 1 stop() calls with raw intervals d1..dN, the accumulator
\* has count = N, sum = d1 + ... + dN, min = the smallest di and max = the
\* largest di.
C1_AccumulatorMatchesSamples ==
    Len(samples) >= 1 =>
        /\ sw.stats.count = Len(samples)
        /\ sw.stats.sum = SeqSum(samples)
        /\ sw.stats.min = MinOf(SeqSet(samples))
        /\ sw.stats.max = MaxOf(SeqSet(samples))

C1_Witness ==
    /\ Len(samples) = 2
    /\ samples[1] < samples[2]
    /\ sw.stats.min = samples[1]
    /\ sw.stats.max = samples[2]

\* C2: after N invocations of a decorated function whose body never calls
\* stop() (and no other stop() call), the accumulator has count = N.
C2_DecoratedCallsAccumulate ==
    (pc = "idle" /\ Len(samples) = hist.exitStops) =>
        sw.stats.count = hist.scopes

\* C3 as stated: the intervals measured by consecutive stop() calls with no
\* start() in between are contiguous (each begins at the reading of the
\* previous stop()), and they add up to the time from the last start() to
\* the last stop().
C3_ChainSumEqualsElapsed ==
    Len(chain) >= 1 =>
        /\ \A i \in 2..Len(chain) : chain[i].from = chain[i - 1].to
        /\ SeqSum(ChainDurations) = chain[Len(chain)].to - chain[1].from

\* C3 amended: each stop() re-arms the watch at a fresh timer reading that is
\* not earlier than the reading it measured to, and the next stop() measures
\* from that reading: the intervals of consecutive stop() calls do not
\* overlap and add up to at most the time from the last start() to the last
\* stop().
C3_ChainNonOverlapping ==
    Len(chain) >= 1 =>
        /\ \A i \in 2..Len(chain) : chain[i].from >= chain[i - 1].to
        /\ SeqSum(ChainDurations) <= chain[Len(chain)].to - chain[1].from
        /\ sw.started >= chain[Len(chain)].to
        /\ sw.started = sw.stopped
        /\ sw.started <= clock

C3_Witness ==
    /\ Len(chain) = 2
    /\ chain[2].from > chain[1].to
    /\ chain[2].to > chain[2].from

\* C4: for a watch with count = 0 at scope entry, count after scope exit is
\* k when the body called stop() k >= 1 times, and 1 when it never did.
C4_ExitStopsOnlyWhenEmpty ==
    (Exited /\ scope.entryCount = 0) =>
        scope.exitCount = IF scope.bodyStops >= 1 THEN scope.bodyStops ELSE 1

C4_Witness ==
    /\ Exited
    /\ scope.entryCount = 0
    /\ scope.bodyStops = 2
    /\ scope.exitCount = 2

\* C5: every scope exit that completes emits the rendered summary (the
\* message and the rendering of the accumulator) to the configured sink.
C5_ExitEmitsSummary ==
    (Exited /\ ~ExitRaised) =>
        \E i \in 1..Len(printed) :
            /\ printed[i].head # "Overview:"
            /\ printed[i].sink = sw.file

\* C6: stop(stats=False) leaves the accumulator unchanged.
C6_StopWithoutStatsKeepsAccumulator ==
    [][(Len(samples') > Len(samples) /\ ret' = "False")
          => sw'.stats = sw.stats]_vars

\* C7: scope exit treats a body that raised like one that returned: the
\* accumulator after __exit__ is the same function of the state before it
\* whatever the outcome; a failure of the body reaches the caller (as the
\* exception, or as the context of the exception __exit__ raised); a value
\* returned by the body is returned unchanged whenever __exit__ completes.
C7_ScopeExitIgnoresOutcome ==
    /\ [](Exited =>
            /\ scope.outcome = "raise" =>
                 /\ result.kind = "raise"
                 /\ "BodyError" \in {result.value, result.context}
            /\ (scope.outcome = "return" /\ ~ExitRaised) =>
                 /\ result.kind = "value"
                 /\ result.value = "v")
    /\ [][(pc = "body" /\ pc' = "idle") =>
            sw'.stats = IF sw.stats.count = 0
                        THEN StatisticsCall(sw.stats, clock - sw.started)
                        ELSE sw.stats]_vars

C7_Witness ==
    /\ Exited
    /\ scope.outcome = "raise"
    /\ result = [kind |-> "raise", value |-> "BodyError", context |-> None]
    /\ scope.entryCount = 0
    /\ scope.bodyStops = 0
    /\ scope.exitCount = 1

\* C8: whenever count >= 1, the mean readable from the accumulator exists
\* and equals sum / count.
C8_MeanIsSumOverCount ==
    sw.stats.count >= 1 =>
        /\ mean(sw.stats).kind = "value"
        /\ mean(sw.stats).num * sw.stats.count = sw.stats.sum * mean(sw.stats).den

C10_NoStatisticsWithoutSamples ==
    sw.stats.count = 0 =>
        /\ mean(sw.stats).kind = "raise"
        /\ stddev(sw.stats).kind = "raise"
        /\ DOMAIN reprText(sw.stats) = {"form", "total"}
        /\ reprText(sw.stats).total = 0

C10_Witness ==
    /\ sw.stats.count = 0
    /\ pc = "body"
    /\ sw.started >= 1
    /\ mean(sw.stats).kind = "raise"

\* C11: lap() returns the time since the previous lap() or start() and
\* advances only `stopped`: the accumulator, _time and `started` are
\* unchanged, so every stop(), also one that follows a lap(), still measures
\* from the start of its interval.
C11_LapLeavesIntervalAlone ==
    /\ [][call'.op = "lap" =>
            /\ call'.val = clock - sw.stopped
            /\ sw'.stopped = clock
            /\ sw'.started = sw.started
            /\ sw'.stats = sw.stats
            /\ sw'.time = sw.time
            /\ samples' = samples]_vars
    /\ [](/\ sw.stats.count = Len(samples)
          /\ sw.stats.sum = SeqSum(samples)
          /\ sw.started <= sw.stopped)

C11_Witness ==
    /\ call.op = "lap"
    /\ call.val = 1
    /\ sw.stopped = 2
    /\ sw.started = 0
    /\ sw.stats.count = 0

\* C12: the property `time` returns the value returned by the most recent
\* stop() (the rounded interval), reading it changes nothing of the watch,
\* and it fails (AttributeError) before any stop().
C12_TimeIsLastStopValue ==
    /\ [](time(sw) = IF Len(samples) = 0
                     THEN [kind |-> "raise", val |-> 0]
                     ELSE [kind |-> "value",
                           val |-> round(samples[Len(samples)])])
    /\ [][call'.op = "time" =>
            /\ sw' = sw
            /\ samples' = samples
            /\ call'.kind = time(sw).kind
            /\ call'.val = time(sw).val]_vars

C12_Witness ==
    /\ call.op = "time"
    /\ call.kind = "value"
    /\ call.val = 2
    /\ sw.started = sw.stopped

\* The fields of the two forms of the rendering.
SingleFields == {"form", "total"}
MultiFields ==
    {"form", "total", "minimum", "maximum", "mean", "stddev", "count"}

\* C13 as stated: the rendering is the single-value form exactly when
\* count <= 1; with count >= 2 it is the block of six metrics, whose total
\* equals sum and whose count is the number of recorded samples.
C13_RenderTotalIsSum ==
    LET r == StopwatchRepr(sw).stats
    IN  /\ (r.form = "single") <=> (sw.stats.count <= 1)
        /\ sw.stats.count <= 1 => DOMAIN r = SingleFields
        /\ sw.stats.count >= 2 =>
             /\ r.form = "multi"
             /\ DOMAIN r = MultiFields
             /\ r.total = sw.stats.sum
             /\ r.count = Len(samples)

\* C13 amended: as stated, but the total shown is sum rounded to ndigits
\* digits (as is the single total of the single-value form).
C13_RenderFormFollowsCount ==
    LET r == StopwatchRepr(sw).stats
    IN  /\ StopwatchRepr(sw).message = sw.message
        /\ (r.form = "single") <=> (sw.stats.count <= 1)
        /\ r.total = round(SeqSum(samples))
        /\ sw.stats.count <= 1 => DOMAIN r = SingleFields
        /\ sw.stats.count >= 2 =>
             /\ r.form = "multi"
             /\ DOMAIN r = MultiFields
             /\ r.count = Len(samples)

C13_Witness ==
    /\ sw.stats.count = 2
    /\ StopwatchRepr(sw).stats.form = "multi"
    /\ sw.stats.sum = 1
    /\ StopwatchRepr(sw).stats.total = 0

\* C14: with a file name as sink, the watch holds no open handle on the file
\* once a scope exit has completed.
C14_NoOpenHandleAfterExit ==
    (Exited /\ Truthy(sw.filename)) => sw.file = None

\* C15: started and stopped are always timer readings (never the -1 of
\* __init__) with started <= stopped, and between calls (after construction,
\* start() or stop()) they are the same reading.
C15_StartedEqualsStopped ==
    /\ sw.started \in 0..clock
    /\ sw.stopped \in 0..clock
    /\ sw.started <= sw.stopped
    /\ sw.started = sw.stopped

C15_Witness ==
    /\ Len(chain) = 1
    /\ chain[1].to = 1
    /\ sw.started = 2
    /\ sw.stopped = 2

\* C16: start() leaves the accumulator and _time unchanged and replaces the
\* message when and only when a message argument is supplied (not None);
\* the start() inside stop() never changes the message.
C16_StartOnlyRestarts ==
    /\ [][call'.op = "start" =>
            /\ sw'.stats = sw.stats
            /\ sw'.time = sw.time
            /\ sw'.started = clock
            /\ sw'.message = IF call'.arg # None THEN call'.arg
                             ELSE sw.message]_vars
    /\ [][samples' # samples => sw'.message = sw.message]_vars

\* C17: count = 0 implies min, max, sum and ssq hold their initial values;
\* count never decreases, so it is >= 1 ever after the first recording
\* stop().
C17_CountMonotone ==
    /\ [](sw.stats.count = 0 =>
            /\ sw.stats.min = FloatMax
            /\ sw.stats.max = 0
            /\ sw.stats.sum = 0
            /\ sw.stats.ssq = 0)
    /\ [](Len(samples) >= 1 => sw.stats.count >= 1)
    /\ [][sw'.stats.count >= sw.stats.count]_vars

C17_Witness ==
    /\ pc = "body"
    /\ hist.scopes = 2
    /\ scope.entryCount = 1
    /\ sw.stats.count = 1
    /\ call.op = "start"

\* C18: with a file name as sink, every completed scope exit adds exactly
\* one sample to the pickled statistics, equal to the time measured during
\* that scope (the growth of stats.sum since scope entry).
C18_SidecarRecordsRunDuration ==
    [][(pc = "body" /\ pc' = "idle" /\ Truthy(sw.filename)
          /\ result'.value \notin {"TypeError", "OSError"}) =>
         /\ sidecar'.exists
         /\ sidecar'.stats.count =
              (IF sidecar.exists THEN sidecar.stats.count ELSE 0) + 1
         /\ sidecar'.stats.sum =
              (IF sidecar.exists THEN sidecar.stats.sum ELSE 0)
              + (sw'.stats.sum - SeqSum(SubSeq(samples', 1, scope.entryCount)))]_vars

\* C19: when __exit__ cannot open its sink (no file object, and no file name
\* or a file that cannot be opened), the caller gets the error: TypeError
\* for a watch without file and file name, OSError for a path that cannot be
\* opened; nothing is printed.
C19_SinkFailurePropagates ==
    (Exited /\ sw.file = None) =>
        /\ result.kind = "raise"
        /\ result.value = IF sw.filename = None THEN "TypeError" ELSE "OSError"
        /\ printed = <<>>

C19_Witness ==
    /\ Exited
    /\ sw.file = None
    /\ sw.filename = None
    /\ result.value = "TypeError"
    /\ scope.outcome = "return"

====
